---- MODULE Spec2Model ----
(***************************************************************************)
(* The Zep vector-store notebook (src/unnamed/part_000), the Zep retriever  *)
(* notebook (zep_memorystore.ipynb) and the model calls of the quickstart  *)
(* (quickstart.mdx) as a state machine.                                    *)
(*                                                                         *)
(* The client side is the code of the notebooks: the readiness poller      *)
(* wait_for_ready and the cells that call from_documents, aadd_documents,  *)
(* the searches, add_message and the retriever.  The stores behind the     *)
(* clients are the Zep server; they are modelled from the data model of    *)
(* the specification, from the notes of the notebooks and from the outputs *)
(* the notebooks record.  A kernel runs one notebook: the vector-store     *)
(* cells start only where no memory client was made, and the other way.    *)
(***************************************************************************)
EXTENDS Integers, Sequences, FiniteSets, TLC

\* ------------------------------------------------------------------ bounds
MaxDocs == 4        \* documents a collection holds at most
MaxScore == 2       \* relevance scores are 1..MaxScore
MaxK == 3           \* a search asks for 1..MaxK results
MaxValue == 2       \* a model parameter takes the values 0..MaxValue
MaxLen == 4         \* a text has at most MaxLen characters
MaxOther == 2       \* another task of the event loop makes at most MaxOther steps

\* --------------------------------------------------------------- constants
CollectionName == "babbage"
Names == {"babbage", "other"}
SrcA == "pg71292"
SrcB == "48320-0"
Sources == {SrcA, SrcB}
Statuses == {"pending", "ready", "failed"}

NoResp == [cnt |-> -1, emb |-> -1, status |-> "none"]
NoLine == <<-1, -1>>
NoFilter == [field |-> "none", value |-> ""]
NoAdd == [wasReady |-> FALSE, cnt |-> -1, n |-> 0]
NoHist == [afterEq |-> FALSE, less |-> FALSE, lastEmb |-> -1, decreased |-> FALSE]
NoRes == [target |-> "none", type |-> "none", filter |-> NoFilter, items |-> <<>>,
          k |-> 0, cands |-> 0, at |-> NoResp, session |-> "", mode |-> "none",
          seen |-> {}, prev |-> [has |-> FALSE, ids |-> <<>>]]
NoConfig == [is_auto_embedded |-> FALSE, embedding |-> FALSE]
NoClient == [made |-> FALSE, compatible |-> TRUE, warned |-> FALSE]
NoModel == [made |-> FALSE]
NoOut == [method |-> "none"]
NoParse == [called |-> FALSE, text |-> <<>>, list |-> <<>>]
NoChain == [running |-> FALSE, returned |-> FALSE, input |-> [text |-> ""],
            ran |-> <<>>, got |-> <<>>, outs |-> <<>>,
            value |-> [by |-> "none", val |-> <<>>]]

VARIABLES
    exists,     \* the collection exists in the store
    docs,       \* the collection's documents, in insertion order
    embedded,   \* indices of the documents that are embedded
    status,     \* the collection's status
    pc,         \* wait_for_ready: where the coroutine stands
    name,       \* wait_for_ready: its parameter collection_name
    c,          \* wait_for_ready: the last fetched collection
    req,        \* the collection name of the last aget_collection request
    line,       \* the last progress line printed
    owed,       \* fetches made minus progress lines printed, this call
    hist,       \* what the fetches made so far have shown (observer)
    res,        \* the result of the caller's last search
    lastAdd,    \* the caller's aadd_documents since its last other call
    config,     \* the configuration the collection was created with
    client,     \* the memory notebook's Zep client (ZepMemory)
    mem,        \* the memory store: per session, the messages added, in order
    memEmb,     \* the memory store: the messages that are embedded
    slept,      \* the memory notebook has made its time.sleep(2)
    llm,        \* the quickstart's model object: its configured parameters
    out,        \* the quickstart's last predict / predict_messages call
    parsed,     \* the quickstart's last parse call: its text and its list
    chain,      \* the quickstart's chain: the invocation under way or returned
    other       \* steps made by another task of the event loop

vars == <<exists, docs, embedded, status, pc, name, c, req, line, owed,
          hist, res, lastAdd, config, client, mem, memEmb, slept, llm, out,
          parsed, chain, other>>
storeVars == <<exists, docs, embedded, status>>
memVars == <<client, mem, memEmb, slept>>
predVars == <<llm, out>>
quickVars == <<parsed, chain>>
pollVars == <<pc, name, c, req, line, owed, hist>>

\* ------------------------------------------------------------ the store
DocumentCount == Len(docs)
DocumentEmbeddedCount == Cardinality(embedded)

Doc(s) == [source |-> s]

\* The batches of one book: chunks of one source.
Batches ==
    UNION {[1..n -> {Doc(s)}] : s \in Sources, n \in 1..MaxDocs}

BatchesOf(s) == {b \in Batches : \A i \in 1..Len(b) : b[i].source = s}

\* What aget_collection answers.
StoreResponse ==
    [cnt |-> DocumentCount, emb |-> DocumentEmbeddedCount, status |-> status]

\* Faulty variant: an add leaves the status as it was.
StoreAddKeepStatus(batch) ==
    /\ Len(docs) + Len(batch) <= MaxDocs
    /\ docs' = docs \o batch
    /\ UNCHANGED <<embedded, status>>

\* Faulty variant: an add makes the store embed the whole collection anew.
StoreAddReindex(batch) ==
    /\ Len(docs) + Len(batch) <= MaxDocs
    /\ docs' = docs \o batch
    /\ status' = "pending"
    /\ embedded' = {}

\* Faulty variant: an add marks the collection as failed.
StoreAddMarksFailed(batch) ==
    /\ Len(docs) + Len(batch) <= MaxDocs
    /\ docs' = docs \o batch
    /\ status' = "failed"
    /\ UNCHANGED embedded

\* The store takes a batch: the count grows at once, embedding is pending.
StoreAdd(batch) ==
    /\ Len(docs) + Len(batch) <= MaxDocs
    /\ docs' = docs \o batch
    /\ status' = "pending"
    /\ UNCHANGED embedded

\* The store takes a batch that comes with the vectors its client has computed:
\* nothing is left for the store's embedder.
StoreAddEmbedded(batch) ==
    /\ Len(docs) + Len(batch) <= MaxDocs
    /\ docs' = docs \o batch
    /\ embedded' = embedded \cup ((Len(docs) + 1)..(Len(docs) + Len(batch)))
    /\ status' = IF Cardinality(embedded') = Len(docs') THEN "ready" ELSE status

\* Every way to fill the two settings: the collection's flag, and whether the
\* vector store is handed an Embeddings instance.
Configs == [is_auto_embedded : BOOLEAN, embedding : BOOLEAN]

\* Faulty variant: an Embeddings instance is also accepted for a collection that
\* is set to auto-embed.
ValidConfigLenient(cfg) == cfg.embedding \/ cfg.is_auto_embedded

\* "If you pass in an Embeddings instance ... you must also set your collection
\* to isAutoEmbedded === false", and the other way round.
ValidConfig(cfg) == cfg.embedding <=> ~cfg.is_auto_embedded

\* The vector store adds a batch: embedded by its Embeddings instance when it
\* has one, left to the server otherwise.
CollectionAdd(cfg, batch) ==
    IF cfg.embedding THEN StoreAddEmbedded(batch) ELSE StoreAdd(batch)

\* A result on display is held by the caller alone; what a store does in the
\* meantime shows in no value of the caller, and its step is taken when the
\* cell has ended.
StoreStep == pc # "results"

\* The store's embedder finishes one pending document.
EmbedProgress ==
    /\ exists
    /\ StoreStep
    /\ \E d \in (1..Len(docs)) \ embedded :
         /\ embedded' = embedded \cup {d}
         /\ status' = IF Cardinality(embedded') = Len(docs) THEN "ready" ELSE status
    /\ UNCHANGED <<exists, docs, pollVars, res, lastAdd>>
    /\ UNCHANGED <<config, memVars, predVars, quickVars, other>>

\* Another client of the store adds documents to the collection.
ExternalAdd ==
    /\ exists
    /\ StoreStep
    /\ \E b \in Batches : CollectionAdd(config, b)
    /\ UNCHANGED <<exists, pollVars, res, lastAdd>>
    /\ UNCHANGED <<config, memVars, predVars, quickVars, other>>

\* -------------------------------------------------------- wait_for_ready
CallerFree == pc \in {"idle", "done"}

\* The frame and the output of an earlier wait_for_ready are gone when the
\* caller goes on to its next call.
FreshLocals ==
    /\ c' = NoResp
    /\ req' = ""
    /\ line' = NoLine
    /\ owed' = 0
    /\ hist' = [hist EXCEPT !.afterEq = FALSE, !.less = FALSE]

\* await wait_for_ready(collection_name): the coroutine starts.
Call(n) ==
    /\ CallerFree
    /\ pc' = "fetch"
    /\ name' = n
    /\ FreshLocals
    /\ res' = NoRes
    /\ UNCHANGED <<storeVars, lastAdd>>
    /\ UNCHANGED <<config, memVars, predVars, quickVars, other>>

\* Faulty variant: the request names the notebook's global, not the parameter.
FetchGlobalName(r) ==
    /\ pc = "fetch"
    /\ c' = r
    /\ req' = CollectionName
    /\ owed' = owed + 1
    /\ hist' = [afterEq   |-> (hist.afterEq \/ (c # NoResp /\ c.emb = c.cnt)),
                less      |-> (hist.less \/ r.emb < r.cnt),
                lastEmb   |-> r.emb,
                decreased |-> (hist.decreased \/ r.emb < hist.lastEmb)]
    /\ pc' = "print"
    /\ UNCHANGED <<storeVars, name, line, res, lastAdd>>
    /\ UNCHANGED <<config, memVars, predVars, quickVars, other>>

\* Faulty variant: the fetch makes the store take up the collection's embedding
\* anew.
FetchMarking(r) ==
    /\ pc = "fetch"
    /\ c' = r
    /\ req' = name
    /\ owed' = owed + 1
    /\ hist' = [afterEq   |-> (hist.afterEq \/ (c # NoResp /\ c.emb = c.cnt)),
                less      |-> (hist.less \/ r.emb < r.cnt),
                lastEmb   |-> r.emb,
                decreased |-> (hist.decreased \/ r.emb < hist.lastEmb)]
    /\ pc' = "print"
    /\ status' = "pending"
    /\ UNCHANGED <<exists, docs, embedded, name, line, res, lastAdd>>
    /\ UNCHANGED <<config, memVars, predVars, quickVars, other>>

\* c = await client.document.aget_collection(collection_name)
Fetch(r) ==
    /\ pc = "fetch"
    /\ c' = r
    /\ req' = name
    /\ owed' = owed + 1
    /\ hist' = [afterEq   |-> (hist.afterEq \/ (c # NoResp /\ c.emb = c.cnt)),
                less      |-> (hist.less \/ r.emb < r.cnt),
                lastEmb   |-> r.emb,
                decreased |-> (hist.decreased \/ r.emb < hist.lastEmb)]
    /\ pc' = "print"
    /\ UNCHANGED <<storeVars, name, line, res, lastAdd>>
    /\ UNCHANGED <<config, memVars, predVars, quickVars, other>>

\* Faulty variant: the progress line is printed only while not ready.
PrintUnlessReady ==
    /\ pc = "print"
    /\ IF c.status = "ready"
         THEN UNCHANGED <<line, owed>>
         ELSE line' = <<c.emb, c.cnt>> /\ owed' = owed - 1
    /\ pc' = "sleep"
    /\ UNCHANGED <<storeVars, name, c, req, hist, res, lastAdd>>
    /\ UNCHANGED <<config, memVars, predVars, quickVars, other>>

\* Faulty variant: the sleep is skipped when the fetch reported ready.
PrintStatusSkipSleep ==
    /\ pc = "print"
    /\ line' = <<c.emb, c.cnt>>
    /\ owed' = owed - 1
    /\ pc' = IF c.status = "ready" THEN "test" ELSE "sleep"
    /\ UNCHANGED <<storeVars, name, c, req, hist, res, lastAdd>>
    /\ UNCHANGED <<config, memVars, predVars, quickVars, other>>

\* print("Embedding status: " f"{c.document_embedded_count}/{c.document_count} ...")
PrintStatus ==
    /\ pc = "print"
    /\ line' = <<c.emb, c.cnt>>
    /\ owed' = owed - 1
    /\ pc' = "sleep"
    /\ UNCHANGED <<storeVars, name, c, req, hist, res, lastAdd>>
    /\ UNCHANGED <<config, memVars, predVars, quickVars, other>>

\* time.sleep(1)
Sleep ==
    /\ pc = "sleep"
    /\ pc' = "test"
    /\ UNCHANGED <<storeVars, name, c, req, line, owed, hist, res, lastAdd>>
    /\ UNCHANGED <<config, memVars, predVars, quickVars, other>>

\* Faulty variant: every status but "pending" counts as ready.
IsReadyNotPending(r) == r.status # "pending"

\* if c.status == "ready": break
IsReady(r) == r.status = "ready"

\* Faulty variant: the break stands outside the if.
TestBreakAlways ==
    /\ pc = "test"
    /\ pc' = "done"
    /\ UNCHANGED <<storeVars, name, c, req, line, owed, hist, res, lastAdd>>
    /\ UNCHANGED <<config, memVars, predVars, quickVars, other>>

\* Faulty variant: the loop gives up when the store reports a failure.
TestGiveUp ==
    /\ pc = "test"
    /\ pc' = IF c.status \in {"ready", "failed"} THEN "done" ELSE "fetch"
    /\ UNCHANGED <<storeVars, name, c, req, line, owed, hist, res, lastAdd>>
    /\ UNCHANGED <<config, memVars, predVars, quickVars, other>>

\* Faulty variant: the loop ends as soon as some document is embedded.
TestBreakOnProgress ==
    /\ pc = "test"
    /\ pc' = IF c.emb > 0 THEN "done" ELSE "fetch"
    /\ UNCHANGED <<storeVars, name, c, req, line, owed, hist, res, lastAdd>>
    /\ UNCHANGED <<config, memVars, predVars, quickVars, other>>

\* Faulty variant: the test compares with a status the store never reports.
TestMissesReady ==
    /\ pc = "test"
    /\ pc' = "fetch"
    /\ UNCHANGED <<storeVars, name, c, req, line, owed, hist, res, lastAdd>>
    /\ UNCHANGED <<config, memVars, predVars, quickVars, other>>

Test ==
    /\ pc = "test"
    /\ pc' = IF IsReady(c) THEN "done" ELSE "fetch"
    /\ UNCHANGED <<storeVars, name, c, req, line, owed, hist, res, lastAdd>>
    /\ UNCHANGED <<config, memVars, predVars, quickVars, other>>

\* The fetch of the notebook's run: the store answers with the collection.
FetchStore == Fetch(StoreResponse)

\* The notebook calls the poller on the collection it has created.
WaitForReady ==
    /\ exists
    /\ Call(CollectionName)

\* ------------------------------------------------------------ the caller
\* Faulty variant: the collection is created but the documents are not sent.
FromDocumentsCreateOnly ==
    /\ CallerFree
    /\ ~exists
    /\ client = NoClient
    /\ exists' = TRUE
    /\ \E cfg \in Configs : \E b \in BatchesOf(SrcA) :
         /\ ValidConfig(cfg)
         /\ config' = cfg
         /\ UNCHANGED <<docs, embedded, status>>
         /\ lastAdd' = [wasReady |-> FALSE, cnt |-> Len(b), n |-> Len(b)]
    /\ pc' = "idle"
    /\ name' = ""
    /\ FreshLocals
    /\ res' = NoRes
    /\ UNCHANGED <<memVars, predVars, quickVars, other>>

\* vs = ZepVectorStore.from_documents(docs, collection_name=..., config=...)
\* The collection does not exist yet: it is created with the configuration and
\* populated with the documents passed.
FromDocuments ==
    /\ CallerFree
    /\ ~exists
    /\ client = NoClient
    /\ exists' = TRUE
    /\ \E cfg \in Configs : \E b \in BatchesOf(SrcA) :
         /\ ValidConfig(cfg)
         /\ config' = cfg
         /\ CollectionAdd(cfg, b)
         /\ lastAdd' = [wasReady |-> FALSE, cnt |-> Len(b), n |-> Len(b)]
    /\ pc' = "idle"
    /\ name' = ""
    /\ FreshLocals
    /\ res' = NoRes
    /\ UNCHANGED <<memVars, predVars, quickVars, other>>

\* Faulty variant: the add is not awaited, so the batch never reaches the store.
AaddNotAwaited ==
    /\ CallerFree
    /\ exists
    /\ \E b \in BatchesOf(SrcB) :
         /\ Len(docs) + Len(b) <= MaxDocs
         /\ lastAdd' = [wasReady |-> status = "ready", cnt |-> Len(docs) + Len(b),
                         n |-> Len(b)]
    /\ pc' = "idle"
    /\ name' = ""
    /\ FreshLocals
    /\ res' = NoRes
    /\ UNCHANGED storeVars
    /\ UNCHANGED <<config, memVars, predVars, quickVars, other>>

\* await vs.aadd_documents(docs)
AaddDocuments ==
    /\ CallerFree
    /\ exists
    /\ \E b \in BatchesOf(SrcB) :
         /\ CollectionAdd(config, b)
         /\ lastAdd' = [wasReady |-> status = "ready", cnt |-> Len(docs'), n |-> Len(b)]
    /\ pc' = "idle"
    /\ name' = ""
    /\ FreshLocals
    /\ res' = NoRes
    /\ UNCHANGED exists
    /\ UNCHANGED <<config, memVars, predVars, quickVars, other>>

\* ------------------------------------------------------------- searches
\* The metadata filter "$[*] ? (@.<field> == '<value>')" on one metadata mapping.
SourceFilter(v) == [field |-> "source", value |-> v]
LabelFilter(v) == [field |-> "Label", value |-> v]

Matches(meta, f) ==
    \/ f = NoFilter
    \/ f.field = "source" /\ meta.source = f.value

Min(a, b) == IF a <= b THEN a ELSE b

\* The embedded documents the filter lets through.
Candidates(f) == {i \in embedded : Matches(docs[i], f)}

\* The scores one query gives to n returned documents, in the order returned.
Scorings(n) == [1..n -> 1..MaxScore]

Descending(sc) == \A i, j \in 1..Len(sc) : i < j => sc[i] >= sc[j]

\* Faulty variant: the results come back in any order of their scores.
SimilarityScoringsUnranked(n) == Scorings(n)

\* Similarity mode: the results are ranked, best first.
SimilarityScorings(n) == {sc \in Scorings(n) : Descending(sc)}

\* MMR mode: the re-ranked order, the most relevant result first.
MmrScorings(n) == {sc \in Scorings(n) : \A j \in 1..n : sc[j] <= sc[1]}

SearchScorings(type, n) ==
    IF type = "mmr" THEN MmrScorings(n) ELSE SimilarityScorings(n)

Item(src, r) == [source |-> src, score |-> r, labels |-> {}]

\* The sources of n returned documents, in the order returned: each document
\* of the candidates is returned at most once.
SourceOrders(f, n) ==
    {q \in [1..n -> Sources] :
        \A src \in Sources :
            Cardinality({j \in 1..n : q[j] = src})
                <= Cardinality({i \in Candidates(f) : docs[i].source = src})}

\* Faulty variant: the store answers with every candidate, whatever the limit.
StoreSearchAll(type, f, k) ==
    LET n == Cardinality(Candidates(f))
    IN  {[j \in 1..n |-> Item(q[j], sc[j])] :
            q \in SourceOrders(f, n), sc \in SearchScorings(type, n)}

\* The results the store can answer with: at most k of the embedded documents
\* the filter lets through, with the scores the query gives them.
StoreSearch(type, f, k) ==
    LET n == Min(k, Cardinality(Candidates(f)))
    IN  {[j \in 1..n |-> Item(q[j], sc[j])] :
            q \in SourceOrders(f, n), sc \in SearchScorings(type, n)}

\* docs_scores = await vs.asimilarity_search_with_relevance_scores(query, k=3)
AsimilaritySearchWithRelevanceScores ==
    /\ CallerFree
    /\ exists
    /\ \E k \in 1..MaxK : \E items \in StoreSearch("similarity", NoFilter, k) :
         res' = [NoRes EXCEPT !.target = "collection", !.type = "similarity",
                              !.items = items, !.k = k,
                              !.cands = Cardinality(Candidates(NoFilter)),
                              !.at = StoreResponse]
    /\ pc' = "results"
    /\ name' = ""
    /\ FreshLocals
    /\ lastAdd' = NoAdd
    /\ UNCHANGED storeVars
    /\ UNCHANGED <<config, memVars, predVars, quickVars, other>>

\* Faulty variant: a search of a collection that is not ready fails.
AsearchWhenReady ==
    /\ CallerFree
    /\ exists
    /\ status = "ready"
    /\ \E type \in {"similarity", "mmr"} :
       \E f \in {NoFilter} \cup {SourceFilter(v) : v \in Sources} :
       \E k \in 1..MaxK :
       \E items \in StoreSearch(type, f, k) :
         res' = [NoRes EXCEPT !.target = "collection", !.type = type, !.filter = f,
                              !.items = items, !.k = k,
                              !.cands = Cardinality(Candidates(f)),
                              !.at = StoreResponse]
    /\ pc' = "results"
    /\ name' = ""
    /\ FreshLocals
    /\ lastAdd' = NoAdd
    /\ UNCHANGED storeVars
    /\ UNCHANGED <<config, memVars, predVars, quickVars, other>>

\* docs = await vs.asearch(query, search_type=..., metadata=filter, k=3)
Asearch ==
    /\ CallerFree
    /\ exists
    /\ \E type \in {"similarity", "mmr"} :
       \E f \in {NoFilter} \cup {SourceFilter(v) : v \in Sources} :
       \E k \in 1..MaxK :
       \E items \in StoreSearch(type, f, k) :
         res' = [NoRes EXCEPT !.target = "collection", !.type = type, !.filter = f,
                              !.items = items, !.k = k,
                              !.cands = Cardinality(Candidates(f)),
                              !.at = StoreResponse]
    /\ pc' = "results"
    /\ name' = ""
    /\ FreshLocals
    /\ lastAdd' = NoAdd
    /\ UNCHANGED storeVars
    /\ UNCHANGED <<config, memVars, predVars, quickVars, other>>

\* for d in docs: print(d.page_content, " -> ", d.metadata): the cell ends.
PrintResults ==
    /\ pc = "results"
    /\ pc' = "idle"
    /\ res' = NoRes
    /\ UNCHANGED <<storeVars, name, c, req, line, owed, hist, lastAdd>>
    /\ UNCHANGED <<config, memVars, predVars, quickVars, other>>

\* ----------------------------------------------------- the memory store
\* session_id = str(uuid4()): the notebook's session, and one of another user.
Session == "session"
OtherSession == "other"
Sessions == {Session, OtherSession}

\* The messages of the memory store.  1..7 are the messages of test_history that
\* the notebook's results record, with the entity labels of their metadata and
\* the score of their first recording (in 1/10000000); 8..12 are the messages of
\* test_history that no result records; 13 is a message of the other session.
Messages ==
    << [labels |-> {"GPE", "PERSON", "DATE"}, score |-> 8897589],
       [labels |-> {"ORG", "WORK_OF_ART"},    score |-> 8856974],
       [labels |-> {"PERSON"},                score |-> 7759558],
       [labels |-> {"PERSON", "ORG"},         score |-> 7602457],
       [labels |-> {"ORG", "PERSON"},         score |-> 7596070],
       [labels |-> {},                        score |-> 7496201],
       [labels |-> {},                        score |-> 7575580],
       [labels |-> {},                        score |-> 0],
       [labels |-> {},                        score |-> 0],
       [labels |-> {},                        score |-> 0],
       [labels |-> {},                        score |-> 0],
       [labels |-> {},                        score |-> 0],
       [labels |-> {},                        score |-> 0] >>

\* The scores of the later recordings (the sync call and the MMR calls) differ
\* from the first in the low digits.
Rescored ==
    <<8897121, 8857352, 7759561, 7602507, 7595935, 7496201, 7575580, 0, 0, 0, 0, 0, 0>>

\* test_history, in the order the loop adds it.
TestHistory == <<3, 8, 6, 9, 7, 4, 10, 11, 12, 5, 2, 1>>

\* The message another client adds under the other session.
OtherMessage == 13

\* "The default message window is 12 messages."
MessageWindow == 12

Range(q) == {q[i] : i \in 1..Len(q)}

\* The orders the notebook records for its query: the async and the sync
\* similarity call, and the MMR calls.
RecordedSimilarity == <<1, 2, 3, 4, 5>>
\* Faulty variant: the sync call returns the first two messages the other way round.
RecordedSimilaritySwapped == <<2, 1, 3, 4, 5>>
RecordedSimilaritySync == <<1, 2, 3, 4, 5>>
RecordedMmr == <<1, 6, 2, 5, 7>>

\* All messages by similarity to the query: by recorded score, then the rest.
ByScore == <<1, 2, 3, 4, 5, 7, 6, 8, 9, 10, 11, 12, 13>>

TopK == 5

\* The order of a call over all messages: the recorded order first.
FullOrder(order) == order \o SelectSeq(ByScore, LAMBDA i : i \notin Range(order))

SimilarityOrder == FullOrder(RecordedSimilarity)
SimilaritySyncOrder == FullOrder(RecordedSimilaritySync)
MmrOrder == FullOrder(RecordedMmr)

CallOrder(mode, type) ==
    IF type = "mmr" THEN MmrOrder
    ELSE IF mode = "sync" THEN SimilaritySyncOrder
    ELSE SimilarityOrder

MessageItem(mode, type, i) ==
    [source |-> "",
     score |-> IF mode = "async" /\ type = "similarity" THEN Messages[i].score
               ELSE Rescored[i],
     labels |-> Messages[i].labels,
     id |-> i]

\* Faulty variant: a search looks at the embedded messages of every session.
SessionCandidatesAnySession(s) == memEmb

\* The messages a search of session s can return: those added under s that are
\* embedded by now.
SessionCandidates(s) == memEmb \cap Range(mem[s])

\* What the memory store answers: the first k candidates in the order of the
\* call.  The recorded result of the filtered query is the recorded result of
\* the unfiltered one: the filter takes no part.
RetrieverSearch(s, mode, type, f, k) ==
    LET cands == SessionCandidates(s)
        found == SelectSeq(CallOrder(mode, type), LAMBDA i : i \in cands)
    IN  [n \in 1..Min(k, Len(found)) |-> MessageItem(mode, type, found[n])]

\* The retriever calls the notebook makes: plain, MMR, and MMR with the filter.
RetrieverCalls ==
    { <<"similarity", NoFilter>>, <<"mmr", NoFilter>>,
      <<"mmr", LabelFilter("WORK_OF_ART")>> }

MessageMatches(i, f) == f = NoFilter \/ f.value \in Messages[i].labels

\* Faulty variant: an incompatible server version is reported nowhere.
ZepMemoryInitSilent ==
    /\ pc = "idle"
    /\ ~exists
    /\ client = NoClient
    /\ \E v \in BOOLEAN : client' = [made |-> TRUE, compatible |-> v, warned |-> FALSE]
    /\ UNCHANGED <<storeVars, pollVars, res, lastAdd, config, mem, memEmb, slept, predVars, quickVars, other>>

\* zep_memory = ZepMemory(session_id=session_id, url=ZEP_API_URL, api_key=...)
\* The client checks the server's version: an incompatible one is a warning.
ZepMemoryInit ==
    /\ pc = "idle"
    /\ ~exists
    /\ client = NoClient
    /\ \E v \in BOOLEAN : client' = [made |-> TRUE, compatible |-> v, warned |-> ~v]
    /\ UNCHANGED <<storeVars, pollVars, res, lastAdd, config, mem, memEmb, slept, predVars, quickVars, other>>

\* for msg in test_history: zep_memory.chat_memory.add_message(...)
AddMessage ==
    /\ client.made
    /\ Len(mem[Session]) < Len(TestHistory)
    /\ mem' = [mem EXCEPT ![Session] = Append(@, TestHistory[Len(@) + 1])]
    /\ UNCHANGED <<storeVars, pollVars, res, lastAdd, config, client, memEmb, slept, predVars, quickVars, other>>

\* time.sleep(2)  # Wait for the messages to be embedded
SleepTwo ==
    /\ client.made
    /\ Len(mem[Session]) = Len(TestHistory)
    /\ ~slept
    /\ slept' = TRUE
    /\ UNCHANGED <<storeVars, pollVars, res, lastAdd, config, client, mem, memEmb, predVars, quickVars, other>>

\* Faulty variant: the embedder stops after the first message.
MemEmbedOnce ==
    /\ StoreStep
    /\ memEmb = {}
    /\ \E i \in (UNION {Range(mem[s]) : s \in Sessions}) \ memEmb :
         memEmb' = memEmb \cup {i}
    /\ UNCHANGED <<storeVars, pollVars, res, lastAdd, config, client, mem, slept, predVars, quickVars, other>>

\* The memory store's embedder finishes one message.
MemEmbed ==
    /\ StoreStep
    /\ \E i \in (UNION {Range(mem[s]) : s \in Sessions}) \ memEmb :
         memEmb' = memEmb \cup {i}
    /\ UNCHANGED <<storeVars, pollVars, res, lastAdd, config, client, mem, slept, predVars, quickVars, other>>

\* Another client of the memory store adds a message under its own session.
ExternalAddMessage ==
    /\ client.made
    /\ StoreStep
    /\ mem[OtherSession] = <<>>
    /\ mem' = [mem EXCEPT ![OtherSession] = <<OtherMessage>>]
    /\ UNCHANGED <<storeVars, pollVars, res, lastAdd, config, client, memEmb, slept, predVars, quickVars, other>>

\* The messages of a result, in the order returned.
Ids(items) == [n \in 1..Len(items) |-> items[n].id]

\* A retriever cell can run: after the preload cell, with the kernel free.
CanRetrieve ==
    /\ client.made
    /\ slept
    /\ CallerFree

SessionResult(s, mode, type, f) ==
    [NoRes EXCEPT !.target = "session", !.type = type, !.filter = f,
                  !.items = RetrieverSearch(s, mode, type, f, TopK), !.k = TopK,
                  !.cands = Cardinality({i \in SessionCandidates(s) : MessageMatches(i, f)}),
                  !.session = s, !.mode = mode, !.seen = SessionCandidates(s)]

\* zep_retriever = ZepRetriever(session_id=..., top_k=5, ...)
\* await zep_retriever.aget_relevant_documents(query, metadata=filter)
AgetRelevantDocuments ==
    /\ CanRetrieve
    /\ \E s \in Sessions : \E call \in RetrieverCalls :
         res' = SessionResult(s, "async", call[1], call[2])
    /\ pc' = "results"
    /\ name' = ""
    /\ FreshLocals
    /\ lastAdd' = NoAdd
    /\ UNCHANGED <<storeVars, config, memVars, predVars, quickVars, other>>

\* zep_retriever.get_relevant_documents(query): the cell after the async one,
\* whose result is still on display.
GetRelevantDocuments ==
    /\ client.made
    /\ slept
    /\ CallerFree \/ (pc = "results" /\ res.target = "session" /\ res.mode = "async")
    /\ \E s \in Sessions :
         res' = [SessionResult(s, "sync", "similarity", NoFilter) EXCEPT
                    !.prev = IF /\ pc = "results" /\ res.session = s
                                /\ res.type = "similarity" /\ res.filter = NoFilter
                             THEN [has |-> TRUE, ids |-> Ids(res.items)]
                             ELSE NoRes.prev]
    /\ pc' = "results"
    /\ name' = ""
    /\ FreshLocals
    /\ lastAdd' = NoAdd
    /\ UNCHANGED <<storeVars, config, memVars, predVars, quickVars, other>>

\* ------------------------------------------------ the quickstart's model
\* The parameters of a model object, such as temperature.
Params == {"temperature", "max_tokens"}
Values == 0..MaxValue

\* The keyword arguments of one call: values for some of the parameters.
Kwargs == UNION {[ps -> Values] : ps \in SUBSET Params}

\* Faulty variant: a value passed at run time is used only where it is larger
\* than the configured one.
EffectiveLarger(configured, kwargs) ==
    [p \in Params |->
        IF p \in DOMAIN kwargs /\ kwargs[p] > configured[p] THEN kwargs[p]
        ELSE configured[p]]

\* "Whatever values are passed in during run time will always override what the
\* object was configured with."
Effective(configured, kwargs) ==
    [p \in Params |-> IF p \in DOMAIN kwargs THEN kwargs[p] ELSE configured[p]]

\* llm = OpenAI(); chat_model = ChatOpenAI(): a model object is configured.
OpenAI ==
    /\ ~llm.made
    /\ \E cfg \in [Params -> Values] : llm' = [made |-> TRUE, params |-> cfg]
    /\ UNCHANGED <<storeVars, pollVars, res, lastAdd, config, memVars, out, quickVars, other>>

\* llm.predict(text, **kwargs)
Predict ==
    /\ llm.made
    /\ \E kw \in Kwargs :
         out' = [method |-> "predict", kwargs |-> kw, used |-> Effective(llm.params, kw)]
    /\ UNCHANGED <<storeVars, pollVars, res, lastAdd, config, memVars, llm, quickVars, other>>

\* llm.predict_messages(messages, **kwargs)
PredictMessages ==
    /\ llm.made
    /\ \E kw \in Kwargs :
         out' = [method |-> "predict_messages", kwargs |-> kw,
                 used |-> Effective(llm.params, kw)]
    /\ UNCHANGED <<storeVars, pollVars, res, lastAdd, config, memVars, llm, quickVars, other>>

\* ----------------------------------------- the quickstart's output parser
\* A text is a sequence of characters: letters, the comma and the space.
Chars == {"a", "b", ",", " "}
Texts == UNION {[1..n -> Chars] : n \in 0..MaxLen}

RECURSIVE StripLeft(_)
StripLeft(t) == IF t # <<>> /\ Head(t) = " " THEN StripLeft(Tail(t)) ELSE t

RECURSIVE StripRight(_)
StripRight(t) ==
    IF t # <<>> /\ t[Len(t)] = " " THEN StripRight(SubSeq(t, 1, Len(t) - 1)) ELSE t

\* text.strip(): the whitespace at the two ends of the whole text is removed.
Strip(t) == StripRight(StripLeft(t))

\* str.find: the first position at which sep occurs in t, 0 when it does not.
Find(t, sep) ==
    LET at == {i \in 1..(Len(t) - Len(sep) + 1) : SubSeq(t, i, i + Len(sep) - 1) = sep}
    IN  IF at = {} THEN 0 ELSE CHOOSE i \in at : \A j \in at : i <= j

\* str.split(sep): the pieces between the occurrences of sep, taken from the
\* left and not overlapping; a text without sep is one piece, the empty text too.
RECURSIVE Split(_, _)
Split(t, sep) ==
    LET i == Find(t, sep)
    IN  IF i = 0 THEN <<t>>
        ELSE <<SubSeq(t, 1, i - 1)>> \o Split(SubSeq(t, i + Len(sep), Len(t)), sep)

\* The separator of parse: a comma followed by one space.
Separator == <<",", " ">>

\* def parse(self, text: str): return text.strip().split(", ")
parse(text) == Split(Strip(text), Separator)

\* CommaSeparatedListOutputParser().parse(text)
CallParse ==
    /\ \E t \in Texts : parsed' = [called |-> TRUE, text |-> t, list |-> parse(t)]
    /\ UNCHANGED <<storeVars, pollVars, res, lastAdd, config, memVars, predVars,
                   chain, other>>

\* ------------------------------------------------ the quickstart's chain
\* The categories a chain is invoked with, as in {"text": "colors"}.
Topics == {"colors", "animals"}

\* chain = chat_prompt | ChatOpenAI() | CommaSeparatedListOutputParser()
Chain == <<"prompt", "model", "parser">>

\* chat_prompt: the input variables fill the system and the human message.
FormatMessages(input) == [system |-> "template", human |-> input.text]

\* What a stage can give back on the value it receives. The model answers with
\* a message of any text; the parser parses the message's content.
StageOutputs(stage, v) ==
    CASE stage = "prompt" -> {FormatMessages(v)}
      [] stage = "model"  -> {[content |-> t] : t \in Texts}
      [] stage = "parser" -> {parse(v.content)}

\* The value a stage receives: the chain's input for the first stage, the
\* output of the stage before it for every other.
StageInput(ch) == IF ch.ran = <<>> THEN ch.input ELSE ch.outs[Len(ch.outs)]

\* Faulty variant: invoke gives back the model's message, unparsed.
ReturnedModelOutput(ch) == [by |-> ch.ran[2], val |-> ch.outs[2]]

\* The value of invoke: the output of the last stage, with the stage it is from.
Returned(ch) == [by |-> ch.ran[Len(ch.ran)], val |-> ch.outs[Len(ch.outs)]]

\* chain.invoke({"text": topic})
Invoke ==
    /\ ~chain.running
    /\ \E topic \in Topics :
         chain' = [NoChain EXCEPT !.running = TRUE, !.input = [text |-> topic]]
    /\ UNCHANGED <<storeVars, pollVars, res, lastAdd, config, memVars, predVars,
                   parsed, other>>

\* The next stage of the chain runs on the value handed to it.
RunStage ==
    /\ chain.running
    /\ Len(chain.ran) < Len(Chain)
    /\ LET stage == Chain[Len(chain.ran) + 1]
           v     == StageInput(chain)
       IN  \E o \in StageOutputs(stage, v) :
             chain' = [chain EXCEPT !.ran = Append(@, stage), !.got = Append(@, v),
                                    !.outs = Append(@, o)]
    /\ UNCHANGED <<storeVars, pollVars, res, lastAdd, config, memVars, predVars,
                   parsed, other>>

\* invoke returns once the last stage has run.
Return ==
    /\ chain.running
    /\ Len(chain.ran) = Len(Chain)
    /\ chain' = [chain EXCEPT !.running = FALSE, !.returned = TRUE,
                              !.value = Returned(chain)]
    /\ UNCHANGED <<storeVars, pollVars, res, lastAdd, config, memVars, predVars,
                   parsed, other>>

\* -------------------------------------------------- the event loop
\* Faulty variant: the sleep hands the loop over too, as an awaited sleep would.
AtAwaitOrSleep == pc \in {"idle", "done", "fetch", "sleep"}

\* The calling flow has handed the event loop over: inside wait_for_ready only at
\* its one await, the request for the collection; time.sleep, print and the test
\* are plain calls that keep the loop's thread. Outside a call the cell has ended.
AtAwait == pc \in {"idle", "done", "fetch"}

\* Another task scheduled on the same event loop makes one step.
OtherTaskStep ==
    /\ AtAwait
    /\ other < MaxOther
    /\ other' = other + 1
    /\ UNCHANGED <<storeVars, pollVars, res, lastAdd, config, memVars, predVars,
                   quickVars>>

\* ------------------------------------------ the poller on free responses
\* Every answer aget_collection can carry: the status is a field of its own.
Responses ==
    {r \in [cnt : 0..MaxDocs, emb : 0..MaxDocs, status : Statuses] : r.emb <= r.cnt}

CallAny == \E n \in Names : Call(n)

FetchAny == \E r \in Responses : Fetch(r)

PollStep == FetchAny \/ PrintStatus \/ Sleep \/ Test

NextResp ==
    \/ CallAny
    \/ FetchAny
    \/ PrintStatus
    \/ Sleep
    \/ Test

Next ==
    \/ FromDocuments
    \/ WaitForReady
    \/ FetchStore
    \/ PrintStatus
    \/ Sleep
    \/ Test
    \/ AaddDocuments
    \/ AsimilaritySearchWithRelevanceScores
    \/ Asearch
    \/ PrintResults
    \/ EmbedProgress
    \/ ExternalAdd

\* Both notebooks: a kernel runs the one or the other.
NextAll ==
    \/ FromDocuments
    \/ WaitForReady
    \/ FetchStore
    \/ PrintStatus
    \/ Sleep
    \/ Test
    \/ AaddDocuments
    \/ AsimilaritySearchWithRelevanceScores
    \/ Asearch
    \/ PrintResults
    \/ EmbedProgress
    \/ ExternalAdd
    \/ ZepMemoryInit
    \/ AddMessage
    \/ SleepTwo
    \/ AgetRelevantDocuments
    \/ GetRelevantDocuments
    \/ MemEmbed
    \/ ExternalAddMessage

\* The retriever notebook and the memory store alone.
NextMem ==
    \/ ZepMemoryInit
    \/ AddMessage
    \/ SleepTwo
    \/ AgetRelevantDocuments
    \/ GetRelevantDocuments
    \/ PrintResults
    \/ MemEmbed
    \/ ExternalAddMessage

\* The quickstart's calls on a model object.
NextPredict ==
    \/ OpenAI
    \/ Predict
    \/ PredictMessages

\* The quickstart's parser called on texts.
NextParse == CallParse

\* The quickstart's chain, invoked again and again.
NextChain ==
    \/ Invoke
    \/ RunStage
    \/ Return

\* The notebook's adds and waits, the store's embedder and other clients.
NextWait ==
    \/ FromDocuments
    \/ WaitForReady
    \/ FetchStore
    \/ PrintStatus
    \/ Sleep
    \/ Test
    \/ AaddDocuments
    \/ EmbedProgress
    \/ ExternalAdd

\* The poller and another task on one event loop.
NextLoop ==
    \/ CallAny
    \/ FetchAny
    \/ PrintStatus
    \/ Sleep
    \/ Test
    \/ OtherTaskStep

Init ==
    /\ exists = FALSE
    /\ docs = <<>>
    /\ embedded = {}
    /\ status = "pending"
    /\ pc = "idle"
    /\ name = ""
    /\ c = NoResp
    /\ req = ""
    /\ line = NoLine
    /\ owed = 0
    /\ hist = NoHist
    /\ res = NoRes
    /\ lastAdd = NoAdd
    /\ config = NoConfig
    /\ client = NoClient
    /\ mem = [s \in Sessions |-> <<>>]
    /\ memEmb = {}
    /\ slept = FALSE
    /\ llm = NoModel
    /\ out = NoOut
    /\ parsed = NoParse
    /\ chain = NoChain
    /\ other = 0

Spec == Init /\ [][Next]_vars

SpecAll == Init /\ [][NextAll]_vars

SpecMem == Init /\ [][NextMem]_vars

\* The memory store's embedder keeps working while messages wait: it gets its
\* turn whenever the kernel is between two cells again and again.
FairSpecMem == SpecMem /\ SF_vars(MemEmbed)

SpecPredict == Init /\ [][NextPredict]_vars

SpecParse == Init /\ [][NextParse]_vars

SpecChain == Init /\ [][NextChain]_vars

\* The poller alone, answered by any sequence of responses.
SpecResp == Init /\ [][NextResp]_vars

SpecLoop == Init /\ [][NextLoop]_vars

SpecWait == Init /\ [][NextWait]_vars

\* One step of wait_for_ready in the notebook's run.
WaitStep == FetchStore \/ PrintStatus \/ Sleep \/ Test

\* The interpreter keeps running the coroutine, the store answers every request,
\* and the store's embedder keeps working while a document is pending.
FairSpecWait == SpecWait /\ WF_vars(WaitStep) /\ WF_vars(EmbedProgress)

\* The interpreter keeps running the coroutine and every request is answered.
FairSpecResp == SpecResp /\ WF_vars(PollStep)

\* ================================================================ claims

ReturnsOnlyWhenAllEmbedded == pc = "done" => ~(c.emb < c.cnt)

\* C2 as amended: wait_for_ready never returns after a fetch whose response has
\* embedded count < document count and a status other than "ready".
NoReturnOnUnreadyShortfall == pc = "done" => ~(c.emb < c.cnt /\ c.status # "ready")

NoReturnOnUnreadyShortfallWitness ==
    pc = "fetch" /\ c # NoResp /\ c.emb < c.cnt /\ c.status = "failed"

\* C3: wait_for_ready returns only after a fetch that reported "ready"; a fetch
\* that reported another status is followed by another fetch, and every fetch
\* asks for the collection the call was given.
PollsUntilReady ==
    /\ [](pc = "done" => c.status = "ready")
    /\ [](req \in {"", name})
    /\ [][(pc = "test" /\ c.status # "ready") => (pc' = "fetch" /\ name' = name)]_vars
    /\ ((pc = "test" /\ c.status # "ready") ~> (pc = "print" /\ req = name))

PollsUntilReadyWitness ==
    pc = "print" /\ line # NoLine /\ req = name /\ name = "other" /\ c.status = "ready"

\* C4: in every reachable state of the collection the embedded count is at most
\* the document count, and the status is "ready" only when the two are equal.
CountsInvariant ==
    /\ DocumentEmbeddedCount <= DocumentCount
    /\ status = "ready" => DocumentEmbeddedCount = DocumentCount

CountsInvariantWitness ==
    status = "ready" /\ lastAdd.wasReady /\ DocumentCount = lastAdd.cnt

\* C5: the embedded count never decreases, neither in the store nor from one
\* fetched response to the next, also when documents are added to a ready
\* collection; and whenever it equals the document count the status is "ready".
EmbeddedCountMonotone ==
    /\ [](~hist.decreased)
    /\ [][DocumentEmbeddedCount' >= DocumentEmbeddedCount]_vars
    /\ []((exists /\ DocumentEmbeddedCount = DocumentCount) => status = "ready")

EmbeddedCountMonotoneWitness ==
    pc = "print" /\ lastAdd.wasReady /\ c.emb >= 1 /\ c.emb < c.cnt /\ hist.afterEq = FALSE
       /\ hist.lastEmb = c.emb

\* C6: after aadd_documents has returned for a collection that was ready, a
\* following wait_for_ready returns only on a response whose embedded count
\* equals its document count and whose document count covers the added documents.
WaitAfterAddCoversNewDocuments ==
    (pc = "done" /\ lastAdd.wasReady) => (c.emb = c.cnt /\ c.cnt >= lastAdd.cnt)

WaitAfterAddCoversNewDocumentsWitness ==
    pc = "done" /\ lastAdd.wasReady /\ c.cnt = lastAdd.cnt /\ hist.less

\* C7: every fetch is followed by exactly one progress line before the next
\* fetch or the return, the line carries the counts of that response, and so
\* the lines printed equal the fetches made, the final ready fetch included.
OneLinePerFetch ==
    /\ owed = (IF pc = "print" THEN 1 ELSE 0)
    /\ (pc # "print" /\ c # NoResp) => line = <<c.emb, c.cnt>>

OneLinePerFetchWitness ==
    pc = "done" /\ owed = 0 /\ line = <<c.emb, c.cnt>> /\ hist.afterEq

\* C8: no retry cap and no timeout: if no fetch ever reports "ready", the call
\* never returns, and once it has started fetching it fetches again and again.
NoRetryCap ==
    [](c.status # "ready") => ([](pc # "done") /\ (<>(pc = "fetch") => []<>(pc = "fetch")))

NoRetryCapWitness ==
    pc = "fetch" /\ c # NoResp /\ c.status = "failed" /\ hist.afterEq

\* C9: a search with a metadata filter returns only results whose metadata
\* satisfies the filter: the filtered source for documents, an entity with the
\* filtered label for messages.
ItemSatisfies(item, f) ==
    IF f.field = "source" THEN item.source = f.value ELSE f.value \in item.labels

FilteredResultsSatisfyFilter ==
    res.filter # NoFilter =>
        \A n \in 1..Len(res.items) : ItemSatisfies(res.items[n], res.filter)

NotReadySearchReturns ==
    /\ (exists /\ CallerFree) => ENABLED Asearch
    /\ (res.target = "collection" /\ res.at.status # "ready") =>
          /\ pc = "results"
          /\ Len(res.items) <= res.at.emb
          /\ res.at.emb < res.at.cnt
          /\ ENABLED PrintResults

NotReadySearchReturnsWitness ==
    /\ res.target = "collection" /\ res.at.status = "pending"
    /\ res.at.emb >= 1
    /\ Len(res.items) = res.at.emb
    /\ res.k > res.at.emb

\* C13: embedding of the added messages proceeds asynchronously: a query may
\* return no results while messages wait to be embedded, and if the query on the
\* session is repeated again and again, eventually a query returns the matching
\* messages: a full result, taken when every message of the session is embedded.
QueriesRepeated == []<><<AgetRelevantDocuments /\ res'.session = Session>>_vars

EventuallyReturnsMessages ==
    QueriesRepeated =>
        <>(/\ pc = "results" /\ res.target = "session" /\ res.session = Session
           /\ res.seen = Range(TestHistory)
           /\ Len(res.items) = TopK)

EventuallyReturnsMessagesWitness ==
    /\ pc = "results" /\ res.target = "session" /\ res.session = Session
    /\ res.items = <<>>
    /\ Len(mem[Session]) = Len(TestHistory)

\* C14 as stated: after the add_message loop and the time.sleep(2) that follows
\* it, every preloaded message is embedded, so a retriever query made after the
\* sleep is answered from all the messages of test_history.
PreloadEmbeddedAfterSleep ==
    /\ slept => Range(TestHistory) \subseteq memEmb
    /\ (res.target = "session" /\ res.session = Session) => res.seen = Range(TestHistory)

\* C15: the content a retriever returns is session specific: every message
\* returned to a retriever built with session_id S was added under S, and no
\* message added under another session is returned, whatever the interleaving of
\* adds, embedding steps and queries of the sessions.
SessionSpecific ==
    res.target = "session" =>
        \A n \in 1..Len(res.items) :
            /\ res.items[n].id \in Range(mem[res.session])
            /\ \A s \in Sessions \ {res.session} : res.items[n].id \notin Range(mem[s])

SessionSpecificWitness ==
    /\ res.target = "session" /\ res.session = Session
    /\ OtherMessage \in memEmb
    /\ Len(res.items) >= 1 /\ Len(res.items) < TopK

AddsRaiseCountByNumberPassed ==
    /\ [][(~exists /\ exists') =>
            (/\ lastAdd'.n >= 1
             /\ DocumentCount' = lastAdd'.n
             /\ ValidConfig(config'))]_vars
    /\ [][(exists /\ lastAdd' # lastAdd /\ lastAdd'.n > 0) =>
            (DocumentCount' = DocumentCount + lastAdd'.n /\ config' = config)]_vars

AddsRaiseCountByNumberPassedWitness ==
    /\ exists /\ lastAdd.n >= 2
    /\ lastAdd.cnt > lastAdd.n
    /\ DocumentCount = lastAdd.cnt

\* C18: in every configuration the vector store accepts, an Embeddings instance
\* is supplied exactly when the collection's auto-embed flag is false; with an
\* Embeddings instance the documents reach the store embedded and the server
\* embeds none, and with the flag true the documents are left to the server.
EmbeddingsIffNotAutoEmbedded ==
    /\ [](exists => (config.embedding <=> ~config.is_auto_embedded))
    /\ [][(docs' = docs /\ DocumentEmbeddedCount' > DocumentEmbeddedCount)
            => config.is_auto_embedded]_vars
    /\ [][(exists' /\ docs' # docs /\ config'.embedding)
            => embedded' = 1..Len(docs')]_vars
    /\ [][(exists' /\ docs' # docs /\ config'.is_auto_embedded)
            => embedded' = embedded]_vars

EmbeddingsIffNotAutoEmbeddedWitness ==
    /\ exists /\ config.embedding /\ ~config.is_auto_embedded
    /\ lastAdd.wasReady /\ DocumentCount = lastAdd.cnt
    /\ DocumentEmbeddedCount = DocumentCount

\* C19: connecting to a server of an older, incompatible version emits a warning
\* and does not fail: the client is constructed, and the operations that follow
\* (adding messages, retrieving documents) can still be made and return results.
ConnectIncompatible == ZepMemoryInit /\ ~client'.compatible

IncompatibleVersionOnlyWarns ==
    /\ (client.made /\ ~client.compatible) => client.warned
    /\ (client = NoClient /\ pc = "idle" /\ ~exists) => ENABLED ConnectIncompatible
    /\ (client.made /\ Len(mem[Session]) < Len(TestHistory)) => ENABLED AddMessage
    /\ (client.made /\ slept /\ CallerFree) => ENABLED AgetRelevantDocuments
    /\ (client.made /\ ~client.compatible /\ res.target = "session")
          => Len(res.items) = Min(TopK, Cardinality(res.seen))

IncompatibleVersionOnlyWarnsWitness ==
    /\ client.made /\ ~client.compatible /\ client.warned
    /\ res.target = "session" /\ res.type = "mmr"
    /\ Len(res.items) = TopK

\* C20: for predict and predict_messages, a parameter value passed as a keyword
\* argument at call time overrides the value the model object was configured
\* with, for that call: the value used is the run-time value whenever one is
\* passed and the configured value otherwise, and the object's configuration
\* stays as it was.
RunTimeOverridesConfigured ==
    /\ [](out.method # "none" =>
            \A p \in Params :
                out.used[p] = IF p \in DOMAIN out.kwargs THEN out.kwargs[p]
                              ELSE llm.params[p])
    /\ [][llm.made => llm' = llm]_vars

RunTimeOverridesConfiguredWitness ==
    /\ out.method = "predict_messages"
    /\ DOMAIN out.kwargs = {"temperature"}
    /\ out.kwargs["temperature"] = 0
    /\ llm.params["temperature"] > 0
    /\ out.used["temperature"] = 0
    /\ out.used["max_tokens"] = llm.params["max_tokens"]

\* C21: parse gives one list element per item of a text whose items are
\* separated by commas, in order: as many elements as there are items, and the
\* i-th element is the i-th item up to the whitespace around it.
\* A text made of items separated by commas: every piece between two commas
\* holds letters, with spaces around them at most.
IsCommaSeparatedList(t) ==
    \A i \in 1..Len(Split(t, <<",">>)) :
        LET item == Strip(Split(t, <<",">>)[i])
        IN  item # <<>> /\ \A j \in 1..Len(item) : item[j] \in {"a", "b"}

ParseSplitsAtCommas ==
    (parsed.called /\ IsCommaSeparatedList(parsed.text)) =>
        LET items == Split(Strip(parsed.text), <<",">>)
        IN  /\ Len(parsed.list) = Len(items)
            /\ \A i \in 1..Len(items) : Strip(parsed.list[i]) = Strip(items[i])

\* C22: an invocation of the chain runs the stages prompt template, language
\* model, output parser in this order, each once; the first stage receives the
\* input and each later stage the output of the stage before it; the value
\* returned is the output parser's result on the model's message.
ChainRunsStagesInOrder ==
    /\ chain.ran = SubSeq(<<"prompt", "model", "parser">>, 1, Len(chain.ran))
    /\ Len(chain.got) = Len(chain.ran) /\ Len(chain.outs) = Len(chain.ran)
    /\ \A i \in 1..Len(chain.ran) :
          chain.got[i] = IF i = 1 THEN chain.input ELSE chain.outs[i - 1]
    /\ chain.returned =>
          /\ chain.ran = <<"prompt", "model", "parser">>
          /\ chain.got[3] = chain.outs[2]
          /\ chain.value.by = "parser"
          /\ chain.value.val = chain.outs[3]
          /\ chain.value.val = Split(Strip(chain.outs[2].content), <<",", " ">>)

ChainRunsStagesInOrderWitness ==
    /\ chain.returned
    /\ chain.input = [text |-> "colors"]
    /\ chain.value.val = << <<"a">>, <<"b">> >>

\* C23 as stated: once a collection is ready, no later step moves it to any
\* other status.
StatusStaysReady ==
    [][(exists /\ status = "ready") => status' = "ready"]_vars

\* C23: a ready collection leaves "ready" by one step only, an add of documents
\* the store has still to embed, which moves it back to embedding in progress;
\* every other step leaves it ready. A collection leaves embedding in progress
\* only for "ready", and only with every document embedded.
StatusLeavesReadyOnlyByAdd ==
    [][/\ (exists /\ status = "ready") =>
            IF Len(docs') > Len(docs) /\ ~config.embedding
              THEN status' = "pending"
              ELSE status' = "ready"
       /\ (exists /\ status = "pending" /\ status' # "pending") =>
            (status' = "ready" /\ Cardinality(embedded') = Len(docs'))]_vars

StatusLeavesReadyOnlyByAddWitness ==
    /\ exists
    /\ status = "pending"
    /\ lastAdd.wasReady
    /\ DocumentEmbeddedCount >= 1
    /\ pc = "fetch"

\* C24: the add_message loop preloads more messages into the session than the
\* default message window holds.
PreloadExceedsWindow ==
    slept => Len(mem[Session]) > MessageWindow

\* C25: an iteration of wait_for_ready goes fetch, print, sleep, test in this
\* order. The print shows the fetched counts; the sleep is taken whatever the
\* fetched status is; the test decides on the collection fetched before the
\* sleep (no step between the fetch and the test changes it or fetches again):
\* it returns when that status is "ready" and starts the next iteration otherwise.
IterationStepsInOrder ==
    [][/\ pc = "fetch" => (pc' = "print" /\ owed' = owed + 1)
       /\ pc = "print" => (pc' = "sleep" /\ c' = c /\ line' = <<c.emb, c.cnt>>)
       /\ pc = "sleep" => (pc' = "test" /\ c' = c /\ owed' = owed /\ req' = req)
       /\ pc = "test"  => /\ c' = c /\ owed' = owed /\ req' = req
                          /\ pc' = IF c.status = "ready" THEN "done" ELSE "fetch"]_vars

IterationStepsInOrderWitness ==
    /\ pc = "test"
    /\ c.status = "ready"
    /\ c.emb = c.cnt /\ c.cnt >= 1
    /\ line = <<c.emb, c.cnt>>
    /\ owed = 0

\* C26: while wait_for_ready prints, sleeps or tests, no other task of the same
\* event loop makes a step; during a call another task steps only while
\* wait_for_ready is suspended at its await of the status response. The poller's
\* own steps are no steps of the other task.
SleepBlocksOtherTasks ==
    [][/\ other' # other => (pc \notin {"print", "sleep", "test"} /\ pc' = pc)
       /\ pc = "sleep" => (pc' = "test" /\ other' = other)]_vars

SleepBlocksOtherTasksWitness ==
    /\ pc = "sleep"
    /\ other = 1
    /\ other < MaxOther
    /\ hist.lastEmb >= 0

\* C27: every step wait_for_ready takes leaves the collection as it is: its
\* existence, documents (hence the document count), embedded documents (hence
\* the embedded count) and status. Of its own values the poller carries only the
\* parameter and the last fetched collection: a fetch replaces c by the store's
\* answer whatever c was, and no other step changes c.
PollerOnlyReads ==
    [][(pc \in {"fetch", "print", "sleep", "test"} /\ pc' # pc) =>
          /\ UNCHANGED <<exists, docs, embedded, status>>
          /\ DocumentCount' = DocumentCount
          /\ DocumentEmbeddedCount' = DocumentEmbeddedCount
          /\ name' = name
          /\ c' = IF pc = "fetch" THEN StoreResponse ELSE c]_vars

PollerOnlyReadsWitness ==
    /\ pc = "done"
    /\ exists
    /\ DocumentCount >= 2
    /\ c = StoreResponse
    /\ c.status = "ready"
    /\ lastAdd.wasReady

\* C28: a search the caller makes right after wait_for_ready has returned finds
\* the collection ready with embedded count = document count, unless documents
\* were added since the fetch on which the poller decided to return; an add
\* shows as a document count above the one of that fetch, and only then can the
\* search find the collection not ready.
ReadinessKeptUntilAdd ==
    [][(pc = "done" /\ pc' = "results" /\ res'.target = "collection") =>
          IF res'.at.cnt = c.cnt
            THEN res'.at.status = "ready" /\ res'.at.emb = res'.at.cnt
            ELSE res'.at.cnt > c.cnt]_vars

ReadinessKeptUntilAddWitness ==
    /\ pc = "results"
    /\ res.target = "collection"
    /\ res.at.status = "ready"
    /\ res.at.emb = res.at.cnt
    /\ hist.lastEmb = res.at.cnt
    /\ res.at.cnt >= 2
    /\ Len(res.items) >= 1

\* C29: when the store's embedder is fair and documents stop being added (from
\* some point on no step changes the documents), every call of wait_for_ready
\* returns: each iteration that starts is followed by the return.
WaitEventuallyReturns ==
    (<>[][docs' = docs]_vars) => ((pc = "fetch") ~> (pc = "done"))

WaitEventuallyReturnsWitness ==
    /\ pc = "done"
    /\ hist.less
    /\ c.status = "ready"
    /\ c.cnt >= 3
    /\ lastAdd.wasReady

====
